---------------------------- MODULE Spec2Model ----------------------------
(***************************************************************************)
(* Binary-encoded genetic algorithm of "Algoritmo Genético.py":            *)
(* decoding, fitness, tournament selection, one-point crossover, bit-flip  *)
(* mutation and the generational loop of algoritmo_genetico.               *)
(*                                                                         *)
(* Python floats are modelled as binary floating-point numbers with a      *)
(* Prec-bit significand and round-to-nearest-even (IEEE 754 double has     *)
(* 53 bits; the exponent range is not modelled).  A float is <<m, e>>,     *)
(* the number m * 2^e, with m odd, or <<0, 0>> for zero.                   *)
(* random.random() draws from {0, 1/RandDen, ..., (RandDen-1)/RandDen},    *)
(* a grid on [0, 1) that contains 0.0; rates are in the same unit.         *)
(* Python lists are 0-based, the sequences here are 1-based.               *)
(***************************************************************************)
EXTENDS Integers, Sequences, FiniteSets

VARIABLES
    cfg,               \* the arguments of algoritmo_genetico
    populacao,         \* populacao
    valores_adequacao, \* valores_adequacao of the generation in progress
    melhor_individuo,  \* melhor_individuo (Nenhum is Python's None)
    melhor_adequacao,  \* melhor_adequacao (MenosInf is float('-inf'))
    historico,         \* historico
    geracao,           \* number of completed iterations of the for loop
    nova_populacao,    \* nova_populacao
    pc,                \* position in algoritmo_genetico
    resultado,         \* the returned tuple, once returned
    excecao,           \* the exception that ended the run, "" while there is none
    maiores,           \* history variable: maiores[g] is the largest fitness value
                       \* evaluated in the generations 1..g
    chamada,           \* a direct call of one operator: its name and arguments
    retorno            \* what that call returned (and the random values it drew)

vars == <<cfg, populacao, valores_adequacao, melhor_individuo, melhor_adequacao,
          historico, geracao, nova_populacao, pc, resultado, excecao, maiores,
          chamada, retorno>>

ga_vars == <<cfg, populacao, valores_adequacao, melhor_individuo, melhor_adequacao,
             historico, geracao, nova_populacao, pc, resultado, excecao, maiores>>

---------------------------------------------------------------------------
(* Bounds of the model *)

\* bits of significand of the modelled floats
Prec == 3
\* random.random() is drawn from k/RandDen, k in 0..RandDen-1
RandDen == 3
\* largest tamanho_populacao of a run of algoritmo_genetico
MaxPop == 2
\* largest population in a direct call of selecao_por_torneio
MaxTorneio == 3
\* largest num_geracoes
MaxGer == 2
\* largest length of an individual in a direct call of an operator
MaxLen == 3
\* x_min and x_max of a direct call of binario_para_decimal are floats of -MaxX..MaxX
MaxX == 10

---------------------------------------------------------------------------
(* Floating point *)

RECURSIVE Pow2(_)
Pow2(n) == IF n <= 0 THEN 1 ELSE 2 * Pow2(n - 1)

Abs(i) == IF i < 0 THEN -i ELSE i

Sgn(i) == IF i < 0 THEN -1 ELSE 1

Min(a, b) == IF a <= b THEN a ELSE b

Zero == <<0, 0>>

\* m * 2^e with the factors of two moved from m into the exponent
RECURSIVE Norm(_, _)
Norm(m, e) ==
    IF m = 0 THEN Zero
    ELSE IF m % 2 = 0 THEN Norm(m \div 2, e + 1)
    ELSE <<m, e>>

\* <<n', d', s>> with n'/d' = (n/d) * 2^s and 2^(Prec-1) <= n'/d' < 2^Prec  (n, d > 0)
RECURSIVE Scale(_, _, _)
Scale(n, d, s) ==
    IF n >= d * Pow2(Prec) THEN Scale(n, 2 * d, s - 1)
    ELSE IF n < d * Pow2(Prec - 1) THEN Scale(2 * n, d, s + 1)
    ELSE <<n, d, s>>

\* The float nearest to (n/d) * 2^e, ties to the even significand  (d > 0)
Round(n, d, e) ==
    IF n = 0 THEN Zero
    ELSE LET t == Scale(Abs(n), d, 0)
             q == t[1] \div t[2]
             r == t[1] % t[2]
             m == IF 2 * r > t[2] \/ (2 * r = t[2] /\ q % 2 = 1) THEN q + 1 ELSE q
         IN  Norm(Sgn(n) * m, e - t[3])

\* float(i) of a Python int
FromInt(i) == Round(i, 1, 0)

\* a / b of two Python ints (true division, correctly rounded), b # 0
IntTrueDiv(a, b) == Round(a * Sgn(b), Abs(b), 0)

FAdd(a, b) ==
    LET e == Min(a[2], b[2])
    IN  Round(a[1] * Pow2(a[2] - e) + b[1] * Pow2(b[2] - e), 1, e)

FNeg(a) == <<-a[1], a[2]>>

FSub(a, b) == FAdd(a, FNeg(b))

FMul(a, b) == Round(a[1] * b[1], 1, a[2] + b[2])

\* float('-inf')
MenosInf == <<-1, 1000000>>

\* a < b
FLess(a, b) ==
    IF b = MenosInf THEN FALSE
    ELSE IF a = MenosInf THEN TRUE
    ELSE LET e == Min(a[2], b[2])
         IN  a[1] * Pow2(a[2] - e) < b[1] * Pow2(b[2] - e)

FLeq(a, b) == ~FLess(b, a)

---------------------------------------------------------------------------
(* The operators *)

Bits == {0, 1}

\* every sequence over S of length n
SeqsOf(S, n) == [1..n -> S]

\* p[i:] and p[:i] of a Python list (i counted from 0)
Desde(p, i) == SubSeq(p, i + 1, Len(p))

Ate(p, i) == SubSeq(p, 1, i)

\* the values random.random() can take, and the rates, in units of 1/RandDen
Sorteios == 0..(RandDen - 1)

Taxas == 0..RandDen

\* str(bit)
StrBit(b) == IF b = 0 THEN "0" ELSE "1"

\* ''.join(map(str, vetor_binario)), as the sequence of its characters
JoinStr(vetor) == [i \in 1..Len(vetor) |-> StrBit(vetor[i])]

\* int(s, 2) of a non-empty string of binary digits
RECURSIVE IntBase2(_)
IntBase2(s) ==
    IF Len(s) = 0 THEN 0
    ELSE 2 * IntBase2(Ate(s, Len(s) - 1)) + (IF s[Len(s)] = "1" THEN 1 ELSE 0)

\* funcao_adequacao: x**2 - 3*x + 4
funcao_adequacao(x) ==
    FAdd(FSub(FMul(x, x), FMul(FromInt(3), x)), FromInt(4))

\* binario_para_decimal, for Len(vetor_binario) >= 1 and Python ints x_min, x_max
binario_para_decimal(vetor_binario, x_min, x_max) ==
    LET decimal == IntBase2(JoinStr(vetor_binario))
    IN  FAdd(FromInt(x_min),
             FMul(FromInt(x_max - x_min),
                  IntTrueDiv(decimal, Pow2(Len(vetor_binario)) - 1)))

\* (faulty variant) the last index of the maximum
ArgMaxUltimo(v) ==
    CHOOSE i \in 1..Len(v) :
        /\ \A j \in 1..Len(v) : FLeq(v[j], v[i])
        /\ \A j \in (i + 1)..Len(v) : FLess(v[j], v[i])

\* np.argmax of a non-empty sequence of floats: the first index of the maximum
ArgMax(v) ==
    CHOOSE i \in 1..Len(v) :
        /\ \A j \in 1..Len(v) : FLeq(v[j], v[i])
        /\ \A j \in 1..(i - 1) : FLess(v[j], v[i])

\* what np.random.choice(n, k, replace=False) can return, for 0 <= k <= n
Amostras(n, k) ==
    {s \in SeqsOf(1..n, k) : \A i, j \in 1..k : i # j => s[i] # s[j]}

\* selecao_por_torneio, given the indices np.random.choice drew
selecao_por_torneio(pop, valores, selecionados) ==
    LET melhor == selecionados[ArgMax([i \in 1..Len(selecionados) |->
                                            valores[selecionados[i]]])]
    IN  pop[melhor]

\* (faulty variant) the tail of the first child starts one bit late
crossover_curto(pai1, pai2, taxa_crossover, r, ponto) ==
    IF r < taxa_crossover
    THEN <<Ate(pai1, ponto) \o Desde(pai2, ponto + 1),
           Ate(pai2, ponto) \o Desde(pai1, ponto)>>
    ELSE <<pai1, pai2>>

\* (faulty variant) the test of the rate is <= instead of <
crossover_leq(pai1, pai2, taxa_crossover, r, ponto) ==
    IF r <= taxa_crossover
    THEN <<Ate(pai1, ponto) \o Desde(pai2, ponto),
           Ate(pai2, ponto) \o Desde(pai1, ponto)>>
    ELSE <<pai1, pai2>>

\* crossover, given the value r of random.random() and the cut random.randint
\* returns (drawn, and read, only when r < taxa_crossover)
crossover(pai1, pai2, taxa_crossover, r, ponto) ==
    IF r < taxa_crossover
    THEN <<Ate(pai1, ponto) \o Desde(pai2, ponto),
           Ate(pai2, ponto) \o Desde(pai1, ponto)>>
    ELSE <<pai1, pai2>>

\* mutacao, given the value rs[i] of random.random() drawn for bit i
mutacao(individuo, taxa_mutacao, rs) ==
    [i \in 1..Len(individuo) |->
        IF rs[i] > taxa_mutacao THEN individuo[i] ELSE 1 - individuo[i]]

---------------------------------------------------------------------------
(* Direct calls of the operators: the arguments are drawn in the initial  *)
(* state, the call is one step.                                            *)

\* Python's None
Nenhum == <<-1>>

SemChamada == [op |-> "nenhuma"]

SemRetorno == [feito |-> FALSE]

\* every list of bits of a length in lo..hi
Individuos(lo, hi) == UNION {SeqsOf(Bits, n) : n \in lo..hi}

\* fitness values a direct call of selecao_por_torneio is given
Notas == {FromInt(0), FromInt(1), FromInt(2)}

\* the integers of -MaxX..MaxX that are floats
Limites == {i \in (-MaxX)..MaxX : FromInt(i) = Norm(i, 0)}

ChamadasDecode ==
    {[op |-> "binario_para_decimal", vetor_binario |-> v, x_min |-> a, x_max |-> b] :
        v \in Individuos(1, MaxLen), a \in Limites, b \in Limites}

ChamadasMutacao ==
    [op : {"mutacao"}, individuo : Individuos(0, MaxLen), taxa_mutacao : Taxas]

ChamadasCrossover ==
    UNION {[op : {"crossover"}, pai1 : SeqsOf(Bits, n), pai2 : SeqsOf(Bits, n),
            taxa_crossover : Taxas] : n \in 2..MaxLen}

ChamadasTorneio ==
    UNION {[op : {"selecao_por_torneio"}, populacao : SeqsOf(SeqsOf(Bits, 2), n),
            valores_adequacao : SeqsOf(Notas, n), tamanho_torneio : 1..n] :
           n \in 1..MaxTorneio}

\* algoritmo_genetico is not running
Parado ==
    /\ cfg = SemChamada
    /\ populacao = <<>>
    /\ valores_adequacao = <<>>
    /\ melhor_individuo = Nenhum
    /\ melhor_adequacao = MenosInf
    /\ historico = <<>>
    /\ geracao = 0
    /\ nova_populacao = <<>>
    /\ pc = "parado"
    /\ resultado = Nenhum
    /\ excecao = ""
    /\ maiores = <<>>

InitOperadores ==
    /\ Parado
    /\ chamada \in {c \in ChamadasDecode : c.x_min < c.x_max}
                   \cup ChamadasMutacao \cup ChamadasCrossover \cup ChamadasTorneio
    /\ retorno = SemRetorno

ChamaDecode ==
    /\ chamada.op = "binario_para_decimal"
    /\ ~retorno.feito
    /\ retorno' = [feito |-> TRUE,
                   valor |-> binario_para_decimal(chamada.vetor_binario,
                                                  chamada.x_min, chamada.x_max)]
    /\ UNCHANGED <<ga_vars, chamada>>

ChamaMutacao ==
    /\ chamada.op = "mutacao"
    /\ ~retorno.feito
    /\ \E rs \in SeqsOf(Sorteios, Len(chamada.individuo)) :
          retorno' = [feito |-> TRUE, rs |-> rs,
                      valor |-> mutacao(chamada.individuo, chamada.taxa_mutacao, rs)]
    /\ UNCHANGED <<ga_vars, chamada>>

ChamaCrossover ==
    /\ chamada.op = "crossover"
    /\ ~retorno.feito
    /\ \E r \in Sorteios :
       \E ponto \in IF r < chamada.taxa_crossover
                    THEN 1..(Len(chamada.pai1) - 1) ELSE {1} :
          retorno' = [feito |-> TRUE, r |-> r, ponto |-> ponto,
                      valor |-> crossover(chamada.pai1, chamada.pai2,
                                          chamada.taxa_crossover, r, ponto)]
    /\ UNCHANGED <<ga_vars, chamada>>

ChamaTorneio ==
    /\ chamada.op = "selecao_por_torneio"
    /\ ~retorno.feito
    /\ \E sel \in Amostras(Len(chamada.populacao), chamada.tamanho_torneio) :
          retorno' = [feito |-> TRUE, selecionados |-> sel,
                      valor |-> selecao_por_torneio(chamada.populacao,
                                                    chamada.valores_adequacao, sel)]
    /\ UNCHANGED <<ga_vars, chamada>>

NextOperadores == ChamaDecode \/ ChamaMutacao \/ ChamaCrossover \/ ChamaTorneio

SpecOperadores == InitOperadores /\ [][NextOperadores]_vars

---------------------------------------------------------------------------
(* algoritmo_genetico *)

\* the search interval of the runs: one on which two individuals can have the same
\* fitness (f(1) = f(2)), so that ties happen
Intervalos == {<<0, 3>>}

\* the rates of the runs: like the driver's 0.7 and 0.01, strictly between 0 and 1,
\* so that every outcome of crossover and of mutacao can happen
TaxasCfg == {1}

\* num_bits of the runs: the shortest valid chromosome (the operators are called
\* directly on longer ones)
NumBitsCfg == {2}

Configs(pops, bits, gers, torneios, taxas, intervalos) ==
    {[tamanho_populacao |-> tp, num_bits |-> nb, x_min |-> iv[1], x_max |-> iv[2],
      num_geracoes |-> ng, taxa_crossover |-> tc, taxa_mutacao |-> tm,
      tamanho_torneio |-> tt, elitismo |-> el] :
        tp \in pops, nb \in bits, ng \in gers, tt \in torneios,
        tc \in taxas, tm \in taxas, iv \in intervalos, el \in BOOLEAN}

\* the preconditions of a run
ConfigValida(c) ==
    /\ c.tamanho_populacao >= c.tamanho_torneio
    /\ c.tamanho_torneio >= 1
    /\ c.num_bits >= 2
    /\ c.num_geracoes >= 1
    /\ c.taxa_crossover \in 0..RandDen
    /\ c.taxa_mutacao \in 0..RandDen
    /\ c.x_min < c.x_max

ConfigsValidas ==
    {c \in Configs(1..MaxPop, NumBitsCfg, 1..MaxGer, 1..MaxPop, TaxasCfg, Intervalos) :
        ConfigValida(c)}

\* what criar_populacao_inicial can return; range() of a number <= 0 is empty,
\* np.random.randint(2, size=0) is the empty list
criar_populacao_inicial(tamanho_populacao, num_bits) ==
    SeqsOf(SeqsOf(Bits, num_bits), tamanho_populacao)

\* the state at the first test of the for loop, for the configurations cs
InitDe(cs) ==
    /\ cfg \in cs
    /\ IF cfg.tamanho_populacao >= 1 /\ cfg.num_bits < 0
       THEN \* np.random.randint(2, size=num_bits): negative dimensions
            /\ populacao = <<>>
            /\ pc = "erro"
            /\ excecao = "ValueError in criar_populacao_inicial"
       ELSE /\ populacao \in criar_populacao_inicial(cfg.tamanho_populacao, cfg.num_bits)
            /\ pc = "for"
            /\ excecao = ""
    /\ valores_adequacao = <<>>
    /\ melhor_individuo = Nenhum
    /\ melhor_adequacao = MenosInf
    /\ historico = <<>>
    /\ geracao = 0
    /\ nova_populacao = <<>>
    /\ resultado = Nenhum
    /\ maiores = <<>>
    /\ chamada = SemChamada
    /\ retorno = SemRetorno

Init == InitDe(ConfigsValidas)

decodifica(individuo) == binario_para_decimal(individuo, cfg.x_min, cfg.x_max)

\* the largest of a non-empty set of floats
Maior(S) == CHOOSE a \in S : \A b \in S : FLeq(b, a)

\* the set of the elements of a sequence
Elementos(s) == {s[i] : i \in 1..Len(s)}

\* (faulty variant) the best of the generation replaces the best so far unconditionally
atualiza_sempre(pop, valores, individuo, adequacao) ==
    <<pop[ArgMax(valores)], valores[ArgMax(valores)]>>

\* (faulty variant) the first individual is taken for the best of the generation
atualiza_primeiro(pop, valores, individuo, adequacao) ==
    IF FLess(adequacao, valores[1])
    THEN <<pop[1], valores[1]>>
    ELSE <<individuo, adequacao>>

\* the update of the best individual: (melhor_individuo, melhor_adequacao) after
\* lines 63-66
atualiza_melhor(pop, valores, individuo, adequacao) ==
    LET indice_melhor == ArgMax(valores)
    IN  IF FLess(adequacao, valores[indice_melhor])
        THEN <<pop[indice_melhor], valores[indice_melhor]>>
        ELSE <<individuo, adequacao>>

\* (faulty variant) the record holds the 0-based index of the generation
registro_base0(g, individuo, adequacao, x_min, x_max) ==
    [geracao |-> g,
     melhor_adequacao |-> adequacao,
     melhor_x |-> binario_para_decimal(individuo, x_min, x_max)]

\* the record of lines 68-73, without media_adequacao (np.mean of
\* valores_adequacao, which nothing else reads)
registro(g, individuo, adequacao, x_min, x_max) ==
    [geracao |-> g + 1,
     melhor_adequacao |-> adequacao,
     melhor_x |-> binario_para_decimal(individuo, x_min, x_max)]

\* (faulty variant) the elitism flag is ignored
semeia_nunca(elitismo, melhor) == <<>>

\* the elitism step: nova_populacao before the while loop
semeia(elitismo, melhor) == IF elitismo THEN <<melhor>> ELSE <<>>

\* valores_adequacao of lines 59-60: the fitness of each individual, in order
RECURSIVE avalia(_, _, _)
avalia(pop, x_min, x_max) ==
    IF pop = <<>> THEN <<>>
    ELSE Append(avalia(Ate(pop, Len(pop) - 1), x_min, x_max),
                funcao_adequacao(binario_para_decimal(pop[Len(pop)], x_min, x_max)))

\* the for loop has an iteration left, and lines 59-63 do not fail
PodeAvaliar ==
    /\ pc = "for"
    /\ geracao < cfg.num_geracoes
    /\ Len(populacao) >= 1
    /\ cfg.num_bits >= 1

\* One iteration of the for loop up to the while loop: evaluate the population,
\* update the best individual, append the record, start the new population.
Avaliar ==
    /\ PodeAvaliar
    /\ valores_adequacao' = avalia(populacao, cfg.x_min, cfg.x_max)
    /\ maiores' = Append(maiores, Maior(Elementos(valores_adequacao')
                                         \cup Elementos(maiores)))
    /\ \E melhor \in {atualiza_melhor(populacao, valores_adequacao',
                                       melhor_individuo, melhor_adequacao)} :
           /\ melhor_individuo' = melhor[1]
           /\ melhor_adequacao' = melhor[2]
           /\ historico' = Append(historico,
                                  registro(geracao, melhor[1], melhor[2],
                                           cfg.x_min, cfg.x_max))
           /\ nova_populacao' = semeia(cfg.elitismo, melhor[1])
    /\ pc' = "while"
    /\ UNCHANGED <<cfg, populacao, geracao, resultado, excecao, chamada, retorno>>

\* the individuals a tournament can return
Torneios ==
    {selecao_por_torneio(populacao, valores_adequacao, sel) :
        sel \in Amostras(Len(populacao), cfg.tamanho_torneio)}

\* the pairs of children crossover can return
Cruzamentos(pai1, pai2) ==
    UNION {{crossover(pai1, pai2, cfg.taxa_crossover, r, ponto) :
               ponto \in IF r < cfg.taxa_crossover THEN 1..(Len(pai1) - 1) ELSE {1}} :
           r \in Sorteios}

\* the individuals mutacao can return
Mutacoes(individuo) ==
    {mutacao(individuo, cfg.taxa_mutacao, rs) : rs \in SeqsOf(Sorteios, Len(individuo))}

\* nova_populacao after lines 87-89, given the mutated children
acrescenta(nova, tamanho_populacao, m1, m2) ==
    IF Len(nova) + 1 < tamanho_populacao
    THEN Append(Append(nova, m1), m2)
    ELSE Append(nova, m1)

\* the while loop has an iteration left, and lines 84-86 can succeed
PodeReproduzir ==
    /\ pc = "while"
    /\ Len(nova_populacao) < cfg.tamanho_populacao
    /\ cfg.tamanho_torneio \in 1..Len(populacao)
    /\ {pais \in Torneios \X Torneios : Cruzamentos(pais[1], pais[2]) # {}} # {}

\* One iteration of the while loop: two tournaments, crossover, mutation of the
\* children, the second of which is dropped when the population is full.
Reproduzir ==
    /\ PodeReproduzir
    /\ \E pai1 \in Torneios, pai2 \in Torneios :
       \E filhos \in Cruzamentos(pai1, pai2) :
       \E m1 \in Mutacoes(filhos[1]) :
       \E m2 \in IF Len(nova_populacao) + 1 < cfg.tamanho_populacao
                 THEN Mutacoes(filhos[2]) ELSE {<<>>} :
          nova_populacao' = acrescenta(nova_populacao, cfg.tamanho_populacao, m1, m2)
    /\ UNCHANGED <<cfg, populacao, valores_adequacao, melhor_individuo,
                   melhor_adequacao, historico, geracao, pc, resultado, excecao,
                   maiores, chamada, retorno>>

\* populacao after line 91
substitui(nova, tamanho_populacao) == Ate(nova, tamanho_populacao)

\* the while loop is over
PodeSubstituir ==
    /\ pc = "while"
    /\ Len(nova_populacao) >= cfg.tamanho_populacao

\* The end of an iteration of the for loop: the new population replaces the old.
Substituir ==
    /\ PodeSubstituir
    /\ populacao' = substitui(nova_populacao, cfg.tamanho_populacao)
    /\ geracao' = geracao + 1
    /\ pc' = "for"
    /\ UNCHANGED <<cfg, valores_adequacao, melhor_individuo, melhor_adequacao,
                   historico, nova_populacao, resultado, excecao, maiores,
                   chamada, retorno>>

\* the for loop is over, and line 96 does not fail
PodeRetornar ==
    /\ pc = "for"
    /\ geracao >= cfg.num_geracoes
    /\ melhor_individuo # Nenhum

\* The return, once range(num_geracoes) is exhausted.
Retornar ==
    /\ PodeRetornar
    /\ resultado' = <<decodifica(melhor_individuo), melhor_adequacao, historico>>
    /\ pc' = "fim"
    /\ UNCHANGED <<cfg, populacao, valores_adequacao, melhor_individuo,
                   melhor_adequacao, historico, geracao, nova_populacao, excecao,
                   maiores, chamada, retorno>>

Next == Avaliar \/ Reproduzir \/ Substituir \/ Retornar

Spec == Init /\ [][Next]_vars

---------------------------------------------------------------------------
(* algoritmo_genetico on arguments that may violate its preconditions: the *)
(* function has no validation, the exceptions are those of the statements  *)
(* that fail.                                                              *)

ConfigsQuaisquer ==
    Configs((-1)..2, (-1)..2, 0..1, (-1)..3, {-1, 1, RandDen + 1},
            {<<0, 3>>, <<3, 0>>, <<0, 0>>})

InitQualquer == InitDe(ConfigsQuaisquer)

\* the run ends in an exception
Falha(nome) ==
    /\ pc' = "erro"
    /\ excecao' = nome
    /\ UNCHANGED <<cfg, populacao, valores_adequacao, melhor_individuo,
                   melhor_adequacao, historico, geracao, nova_populacao, resultado,
                   maiores, chamada, retorno>>

\* Lines 59-63 fail: int('', 2) of an individual without bits, or np.argmax of
\* the fitness of an empty population.
AvaliarErro ==
    /\ pc = "for"
    /\ geracao < cfg.num_geracoes
    /\ IF Len(populacao) >= 1
       THEN cfg.num_bits = 0 /\ Falha("ValueError in binario_para_decimal")
       ELSE Falha("ValueError in np.argmax")

\* Lines 84-86 fail: np.random.choice of more indices than the population has or
\* of a negative number of them, np.argmax of an empty tournament, or
\* random.randint(1, 0) in the crossover of individuals of one bit.
ReproduzirErro ==
    /\ pc = "while"
    /\ Len(nova_populacao) < cfg.tamanho_populacao
    /\ IF cfg.tamanho_torneio > Len(populacao) \/ cfg.tamanho_torneio < 0
       THEN Falha("ValueError in np.random.choice")
       ELSE IF cfg.tamanho_torneio = 0
       THEN Falha("ValueError in np.argmax")
       ELSE /\ cfg.num_bits = 1
            /\ \E r \in Sorteios : r < cfg.taxa_crossover
            /\ Falha("ValueError in random.randint")

\* Line 96 fails when the loop never ran: binario_para_decimal(None, ...).
RetornarErro ==
    /\ pc = "for"
    /\ geracao >= cfg.num_geracoes
    /\ melhor_individuo = Nenhum
    /\ Falha("TypeError in binario_para_decimal")

NextQualquer ==
    \/ Avaliar \/ Reproduzir \/ Substituir \/ Retornar
    \/ AvaliarErro \/ ReproduzirErro \/ RetornarErro

SpecQualquer == InitQualquer /\ [][NextQualquer]_vars

---------------------------------------------------------------------------
(* Properties of algoritmo_genetico on valid arguments (Spec) *)

\* C1: the population always holds exactly tamanho_populacao individuals, each
\* of exactly num_bits bits, at every generation boundary (and in between).
C1_PopulacaoConstante ==
    /\ Len(populacao) = cfg.tamanho_populacao
    /\ \A i \in 1..Len(populacao) :
          /\ Len(populacao[i]) = cfg.num_bits
          /\ \A b \in 1..Len(populacao[i]) : populacao[i][b] \in Bits

\* a population built by the while loop, without elitism, has replaced the first
C1_Witness ==
    /\ pc = "for"
    /\ geracao = 2
    /\ ~cfg.elitismo
    /\ cfg.tamanho_populacao = 2
    /\ populacao[1] # populacao[2]

\* C2: in the history, the best fitness so far never decreases from one record
\* to the next.
C2_MelhorNaoDecresce ==
    /\ \A i \in 1..(Len(historico) - 1) :
          FLeq(historico[i].melhor_adequacao, historico[i + 1].melhor_adequacao)
    /\ pc = "fim" =>
          \A i \in 1..(Len(resultado[3]) - 1) :
             FLeq(resultado[3][i].melhor_adequacao, resultado[3][i + 1].melhor_adequacao)

\* a returned history whose second generation, without elitism, is worse than
\* the best of the first
C2_Witness ==
    /\ pc = "fim"
    /\ ~cfg.elitismo
    /\ Len(resultado[3]) = 2
    /\ \A i \in 1..Len(valores_adequacao) :
          FLess(valores_adequacao[i], resultado[3][1].melhor_adequacao)

\* C3: with elitism, after the replacement step of every generation the first
\* slot of the population is the best individual tracked, bit for bit; it is the
\* first slot of the population being built as well.
C3_ElitePreservada ==
    cfg.elitismo =>
       /\ (pc \in {"for", "fim"} /\ geracao >= 1) => populacao[1] = melhor_individuo
       /\ pc = "while" =>
             Len(nova_populacao) >= 1 /\ nova_populacao[1] = melhor_individuo

\* after a replacement with elitism, the best individual is in the first slot and
\* the other slot holds a different, worse individual
C3_Witness ==
    /\ cfg.elitismo
    /\ pc = "for"
    /\ geracao = 1
    /\ cfg.tamanho_populacao = 2
    /\ populacao[2] # populacao[1]
    /\ populacao[1] # <<0, 0>>

\* the steps left: 0 once returned; every step of the run takes it down
Medida ==
    IF pc = "fim" THEN 0
    ELSE 1 + (cfg.num_geracoes - geracao) * (cfg.tamanho_populacao + 3)
           - (IF pc = "while" THEN 1 + Len(nova_populacao) ELSE 0)

\* C4: the run returns after exactly num_geracoes iterations of the for loop:
\* before the return some step can always be taken, every step (an iteration of the while loop
\* included) takes the natural number Medida down, and the returned history has
\* num_geracoes records, numbered 1, 2, ..., num_geracoes in that order.
C4_Termina ==
    /\ [](pc # "fim" => PodeAvaliar \/ PodeReproduzir \/ PodeSubstituir \/ PodeRetornar)
    /\ [](Medida \in Nat)
    /\ [][Medida' < Medida]_vars
    /\ [](geracao <= cfg.num_geracoes /\ Len(historico) <= cfg.num_geracoes)
    /\ [](pc = "fim" =>
            /\ geracao = cfg.num_geracoes
            /\ Len(resultado[3]) = cfg.num_geracoes
            /\ \A i \in 1..Len(resultado[3]) : resultado[3][i].geracao = i)

\* a run of two generations has returned
C4_Witness ==
    /\ pc = "fim"
    /\ cfg.num_geracoes = 2
    /\ cfg.tamanho_populacao = 2
    /\ Len(resultado[3]) = 2

\* C10: the record of generation g holds the largest fitness evaluated in the
\* generations 1..g and (looked at between the generations and at the return)
\* the decoded value of an individual of that fitness; the returned best_x and
\* best_fitness are those of the last record, and best_fitness = f(best_x).
C10_RegistroAtualizado ==
    /\ Len(historico) = Len(maiores)
    /\ \A g \in 1..Len(historico) : historico[g].melhor_adequacao = maiores[g]
    /\ pc # "while" =>
          \A g \in 1..Len(historico) :
             /\ funcao_adequacao(historico[g].melhor_x) = maiores[g]
             /\ \E ind \in SeqsOf(Bits, cfg.num_bits) :
                   historico[g].melhor_x
                      = binario_para_decimal(ind, cfg.x_min, cfg.x_max)
    /\ pc = "fim" =>
          /\ resultado[3] = historico
          /\ resultado[1] = historico[Len(historico)].melhor_x
          /\ resultado[2] = historico[Len(historico)].melhor_adequacao
          /\ resultado[2] = funcao_adequacao(resultado[1])

\* a returned run whose second generation improved on the first, the best of the
\* second generation not being its first individual
C10_Witness ==
    /\ pc = "fim"
    /\ Len(historico) = 2
    /\ FLess(historico[1].melhor_adequacao, historico[2].melhor_adequacao)
    /\ resultado[2] = historico[2].melhor_adequacao
    /\ cfg.tamanho_populacao = 2
    /\ FLess(valores_adequacao[1], valores_adequacao[2])

---------------------------------------------------------------------------
(* Properties of algoritmo_genetico on arbitrary arguments (SpecQualquer) *)

\* C5: every violation of the preconditions ends the run in an error raised
\* before the for loop starts: no generation is evaluated, no record is appended
\* and nothing is returned.
C5_FalhaAntesDoLaco ==
    ~ConfigValida(cfg) =>
       /\ pc \in {"for", "erro"}
       /\ geracao = 0
       /\ valores_adequacao = <<>>
       /\ historico = <<>>
       /\ resultado = Nenhum
       /\ pc = "erro" => excecao = "ValueError in criar_populacao_inicial"

---------------------------------------------------------------------------
(* Properties of the operators (SpecOperadores) *)

Retornou(op) == chamada.op = op /\ retorno.feito

\* C6: mutacao with rate 0.0 returns its input and with rate 1.0 returns it with
\* every bit flipped, whatever the draws; the output has the input's length.
C6_MutacaoExtremos ==
    Retornou("mutacao") =>
       LET individuo == chamada.individuo
           saida == retorno.valor
       IN  /\ Len(saida) = Len(individuo)
           /\ chamada.taxa_mutacao = 0 => saida = individuo
           /\ chamada.taxa_mutacao = RandDen =>
                 \A i \in 1..Len(individuo) : saida[i] = 1 - individuo[i]

\* the children are the parents with the tails after the cut c exchanged
Troca(pai1, pai2, filhos, c) ==
    \A i \in 1..Len(pai1) :
       /\ filhos[1][i] = IF i <= c THEN pai1[i] ELSE pai2[i]
       /\ filhos[2][i] = IF i <= c THEN pai2[i] ELSE pai1[i]

\* C7: crossover returns the parents unchanged or, for a cut c in 1..L-1, the
\* parents with their tails exchanged: both children have length L and at every
\* position the pair of child bits is the pair of parent bits; with rate 1.0 it
\* is always the exchange, with rate 0.0 always the copies.
C7_CrossoverTroca ==
    Retornou("crossover") =>
       LET pai1 == chamada.pai1
           pai2 == chamada.pai2
           filhos == retorno.valor
           L == Len(pai1)
           trocou == \E c \in 1..(L - 1) : Troca(pai1, pai2, filhos, c)
       IN  /\ filhos = <<pai1, pai2>> \/ trocou
           /\ Len(filhos[1]) = L /\ Len(filhos[2]) = L
           /\ \A i \in 1..L :
                 <<filhos[1][i], filhos[2][i]>> \in {<<pai1[i], pai2[i]>>, <<pai2[i], pai1[i]>>}
           /\ chamada.taxa_crossover = RandDen => trocou
           /\ chamada.taxa_crossover = 0 => filhos = <<pai1, pai2>>

\* a crossover at the cut 2 of parents of three bits whose children differ from
\* both parents
C7_Witness ==
    /\ Retornou("crossover")
    /\ retorno.r < chamada.taxa_crossover
    /\ retorno.ponto = 2
    /\ Len(chamada.pai1) = 3
    /\ retorno.valor[1] \notin {chamada.pai1, chamada.pai2}
    /\ retorno.valor[2] \notin {chamada.pai1, chamada.pai2}

\* the tournament returned the individual at the first of the sampled indices
\* that holds the largest fitness of the sample
Vencedor(pop, valores, sel, saida) ==
    \E j \in 1..Len(sel) :
       /\ saida = pop[sel[j]]
       /\ \A i \in 1..Len(sel) : FLeq(valores[sel[i]], valores[sel[j]])
       /\ \A i \in 1..(j - 1) : FLess(valores[sel[i]], valores[sel[j]])

\* C8: selecao_por_torneio samples tamanho_torneio pairwise distinct indices of
\* the population and returns the individual at the sampled index of largest
\* fitness, the first one in the order sampled when several hold it; the
\* population and the fitness vector are left as they were.
C8_TorneioPrimeiroMaximo ==
    /\ [](Retornou("selecao_por_torneio") =>
            LET sel == retorno.selecionados
            IN  /\ Len(sel) = chamada.tamanho_torneio
                /\ \A i \in 1..Len(sel) : sel[i] \in 1..Len(chamada.populacao)
                /\ \A i, j \in 1..Len(sel) : i # j => sel[i] # sel[j]
                /\ Vencedor(chamada.populacao, chamada.valores_adequacao, sel,
                            retorno.valor))
    /\ [][chamada.op = "selecao_por_torneio" => chamada' = chamada]_vars

\* a tournament of three in which the two best of the sample tie and are
\* different individuals, sampled out of the order of the population
C8_Witness ==
    /\ Retornou("selecao_por_torneio")
    /\ chamada.tamanho_torneio = 3
    /\ retorno.selecionados = <<3, 1, 2>>
    /\ chamada.valores_adequacao = <<FromInt(2), FromInt(1), FromInt(2)>>
    /\ chamada.populacao[1] # chamada.populacao[3]
    /\ retorno.valor = chamada.populacao[3]

\* the unsigned value of the bits, most significant first
RECURSIVE ValorMSB(_)
ValorMSB(v) ==
    IF Len(v) = 0 THEN 0
    ELSE v[1] * Pow2(Len(v) - 1) + ValorMSB(Desde(v, 1))

\* C9: binario_para_decimal decodes the MSB-first value d of the bits to
\* x_min + (x_max - x_min) * d / (2^n - 1): the result lies in [x_min, x_max],
\* the all-zero sequence decodes to exactly x_min, the all-one sequence to
\* exactly x_max, and a sequence of smaller value never decodes to a larger x.
C9_DecodeNoIntervalo ==
    Retornou("binario_para_decimal") =>
       LET v == chamada.vetor_binario
           x == retorno.valor
       IN  /\ IntBase2(JoinStr(v)) = ValorMSB(v)
           /\ FLeq(FromInt(chamada.x_min), x)
           /\ FLeq(x, FromInt(chamada.x_max))
           /\ (\A i \in 1..Len(v) : v[i] = 0) => x = FromInt(chamada.x_min)
           /\ (\A i \in 1..Len(v) : v[i] = 1) => x = FromInt(chamada.x_max)
           /\ \A w \in SeqsOf(Bits, Len(v)) :
                 ValorMSB(w) < ValorMSB(v) =>
                    FLeq(binario_para_decimal(w, chamada.x_min, chamada.x_max), x)

===========================================================================
